---------------------------- MODULE Spec2Model ----------------------------
(***************************************************************************)
(* Certificate generation service (jessewiles/mlcg): the certificate       *)
(* location, caching and verification core.                                *)
(*                                                                         *)
(* State: the blob store (storage key -> PDF bytes), the Redis key cache   *)
(* (cert:<id> -> storage key), the server's UTC clock, and the response    *)
(* of the request handler that ran last.  The request handlers of          *)
(* app/api/endpoints.py run as atomic actions in Spec; in SpecRace the     *)
(* generate handler runs one backend call per step, in several workers.    *)
(* SpecBatch adds the batch handlers, the batch job hashes kept in Redis   *)
(* and a store that may fail to answer, on one date; SpecPeriods runs      *)
(* generate and verify with differing request contents over the months.    *)
(* SpecBackends makes the same calls on the S3 and the local storage       *)
(* backend; SpecVerifyRace runs verify_certificate of a service that was   *)
(* given the cache client, one backend call per step, next to generate     *)
(* requests, deletions and cache expiries.                                 *)
(*                                                                         *)
(* Strings are the program's strings: a storage key is the text            *)
(* "certificates/2024/11/A.pdf", an absent value (None) is "", which       *)
(* Python's `if not s3_key` / `if cached_key` treat alike.                 *)
(***************************************************************************)
EXTENDS Integers, Sequences, FiniteSets, TLC

VARIABLES
    now,               \* datetime.utcnow(): [year, month, day]
    store,             \* blob store: storage key -> bytes ("" = no object)
    cache,             \* Redis: certificate id -> value of cert:<id> ("" = no entry)
    redis_configured,  \* endpoints.redis_client is not None
    uploads,           \* objects put into the store so far
    req,               \* the request handled last and the backend calls it made
    resp,              \* its response
    procs,             \* SpecRace: the generate requests in flight
    jobs,              \* Redis: batch job id -> hash stored under batch:<job_id>
    backends,          \* SpecBackends: an S3 bucket and a local directory side by side
    verifier,          \* SpecVerifyRace: a verify_certificate call of a service with a client
    issued             \* history: the ids generate has answered "completed" for
                       \* in this calendar period, their blob not deleted since

vars == <<now, store, cache, redis_configured, uploads, req, resp, procs, jobs,
          backends, verifier, issued>>

---------------------------------------------------------------------------
(* Bounds of the model *)

\* months the clock may advance past the starting month
MaxMonths == 4
\* objects put into the store in one run
MaxUploads == 2
\* concurrent generate requests of SpecRace
NumReqs == 2
\* requests of one batch call
MaxBatch == 2
\* batch jobs whose hash is stored in one run
MaxJobs == 2

\* the clock starts in October so that the run crosses a year boundary and
\* January looks back to December, November and October
StartYear == 2024
StartMonth == 10

IDs == {"A", "B"}
\* request contents: what is rendered decides no lookup, so the handlers of
\* Spec are given one; concurrent requests differ in it
Payloads == {"p1"}
RacePayloads == {"p1", "p2"}

---------------------------------------------------------------------------
(* Program constants *)

\* `if now.day < 5`
GraceDay == 5
\* `for months_back in range(2, 4)`
LookbackFrom == 2
LookbackStop == 4
\* get_presigned_url(key, expiration=3600)
DefaultExpiration == 3600
\* get_certificate_download_url: expiration=3600, "expires_in": 3600
DownloadExpiration == 3600

---------------------------------------------------------------------------
(* Calendar *)

Period(y, m) == [year |-> y, month |-> m]

\* The i-th period after the starting one, by month arithmetic.
PeriodAt(i) ==
    LET t == StartYear * 12 + (StartMonth - 1) + i
    IN  Period(t \div 12, (t % 12) + 1)

\* Whole months from period p to period q.
MonthsBetween(p, q) == (q.year * 12 + q.month) - (p.year * 12 + p.month)

Periods == {PeriodAt(i) : i \in 0..MaxMonths}

Elapsed == MonthsBetween(PeriodAt(0), now)

\* The days of a month on which the clock is read: the first, the last day
\* of the grace window and the first day after it (the code only compares
\* now.day with 5).
ClockDays == {1, GraceDay - 1, GraceDay}

---------------------------------------------------------------------------
(* Storage keys and URLs *)

\* mutant: the month is not zero-padded
Pad2Unpadded(m) == ToString(m)

\* f"{month:02d}"
Pad2(m) == IF m < 10 THEN "0" \o ToString(m) ELSE ToString(m)

\* f"certificates/{now.year}/{now.month:02d}/{certificate_id}.pdf"
Key(y, m, certificate_id) ==
    "certificates/" \o ToString(y) \o "/" \o Pad2(m) \o "/" \o certificate_id \o ".pdf"

KeysOf(certificate_id) == {Key(p.year, p.month, certificate_id) : p \in Periods}

AllKeys == UNION {KeysOf(i) : i \in IDs}

\* S3Storage.generate_presigned_url: a URL for the key that expires
PresignedUrl(key, expiration) ==
    "https://s3/" \o key \o "?X-Amz-Expires=" \o ToString(expiration)

\* certificate_generator.generate_certificate: request -> PDF bytes.  The
\* renderer is taken at its interface: it returns bytes that depend on the
\* request, or raises (the fault "render" of a request).
Render(payload) == "%PDF " \o payload

\* S3Storage.exists: head_object; any ClientError (the fault "exists": the
\* store answers the request with an error) reads as False
Exists(st, key, fault) ==
    /\ fault # "exists"
    /\ key \in DOMAIN st
    /\ st[key] # ""

\* S3Storage.exists catches ClientError only: when no answer comes from the
\* store at all (the fault "unreachable": a connection error, which is no
\* ClientError) the exception leaves exists
ExistsRaises(fault) == fault = "unreachable"

---------------------------------------------------------------------------
(* Responses *)

NoCalls == [render |-> 0, upload |-> 0]

NoReq ==
    [op |-> "", certificate_id |-> "", payload |-> "", fault |-> "",
     calls |-> NoCalls]

\* the fields of CertificateResponse / CertificateStatus / CertificateVerification
\* and of the download-url dictionary that the model keeps; http is the
\* status code the endpoint answers with (0: no handler has just returned)
NoResp ==
    [op |-> "", certificate_id |-> "", http |-> 0, status |-> "",
     s3_key |-> "", url |-> "", verification_url |-> "", detail |-> ""]

Response(op, certificate_id, http, status) ==
    [NoResp EXCEPT !.op = op, !.certificate_id = certificate_id,
                   !.http = http, !.status = status]

\* raise HTTPException(status_code=..., detail=...)
HttpError(op, certificate_id, http, detail) ==
    [Response(op, certificate_id, http, "error") EXCEPT !.detail = detail]

---------------------------------------------------------------------------
(* generate_certificate, one backend call per step *)

\* the shared backends
World == [store |-> store, cache |-> cache]

NewRequest(certificate_id, payload, fault) ==
    [certificate_id |-> certificate_id, payload |-> payload, fault |-> fault,
     pc |-> "check", pdf |-> "", s3_key |-> "", calls |-> NoCalls,
     resp |-> NoResp]

IdleRequest == [NewRequest("", "", "none") EXCEPT !.pc = "idle"]

GenerateFailed(r) ==
    [r EXCEPT !.pc = "done",
              !.resp = HttpError("generate", r.certificate_id, 500,
                                 "Failed to generate certificate")]

\* redis_client.get(f"cert:{id}") found an entry: answer from the cache
CachedResponse(r, cached_url) ==
    [Response("generate", r.certificate_id, 200, "cached")
        EXCEPT !.s3_key = "certificates/" \o r.certificate_id \o ".pdf",
               !.url = cached_url]

\* mutant: the cache entry is not looked at, every request renders
GenCheckNoReplay(rc, r, w) ==
    IF rc /\ r.fault = "cache"
    THEN [r |-> GenerateFailed(r), w |-> w]
    ELSE [r |-> [r EXCEPT !.pc = "render"], w |-> w]

\* "Check cache first"
GenCheck(rc, r, w) ==
    IF rc /\ r.fault = "cache"
    THEN [r |-> GenerateFailed(r), w |-> w]
    ELSE IF rc /\ w.cache[r.certificate_id] # ""
    THEN [r |-> [r EXCEPT !.pc = "done",
                          !.resp = CachedResponse(r, w.cache[r.certificate_id])],
          w |-> w]
    ELSE [r |-> [r EXCEPT !.pc = "render"], w |-> w]

\* "Generate certificate PDF"
GenRender(r, w) ==
    LET r1 == [r EXCEPT !.calls.render = @ + 1]
    IN  IF r.fault = "render"
        THEN [r |-> GenerateFailed(r1), w |-> w]
        ELSE [r |-> [r1 EXCEPT !.pc = "upload", !.pdf = Render(r.payload)],
              w |-> w]

\* mutant: the key is returned and nothing is put into the store
UploadCertificateKeyOnly(st, t, pdf_data, certificate_id) ==
    [key |-> Key(t.year, t.month, certificate_id), store |-> st]

\* mutant: an object already stored under the key is kept (first write wins)
UploadCertificateIfAbsent(st, t, pdf_data, certificate_id) ==
    LET key == Key(t.year, t.month, certificate_id)
    IN  [key |-> key,
         store |-> IF st[key] # "" THEN st ELSE [st EXCEPT ![key] = pdf_data]]

\* StorageService.upload_certificate: the key is built from the clock at
\* upload time, put_object overwrites whatever the key held
UploadCertificate(st, t, pdf_data, certificate_id) ==
    LET key == Key(t.year, t.month, certificate_id)
    IN  [key |-> key, store |-> [st EXCEPT ![key] = pdf_data]]

\* mutant: a failed upload is swallowed and the request carries on
GenUploadSwallow(t, r, w) ==
    LET r1 == [r EXCEPT !.calls.upload = @ + 1]
        up == UploadCertificate(w.store, t, r.pdf, r.certificate_id)
    IN  [r |-> [r1 EXCEPT !.pc = "cache", !.s3_key = up.key],
         w |-> IF r.fault = "upload" THEN w ELSE [w EXCEPT !.store = up.store]]

\* "Upload to storage with metadata"
GenUpload(t, r, w) ==
    LET r1 == [r EXCEPT !.calls.upload = @ + 1]
        up == UploadCertificate(w.store, t, r.pdf, r.certificate_id)
    IN  IF r.fault = "upload"
        THEN [r |-> GenerateFailed(r1), w |-> w]
        ELSE [r |-> [r1 EXCEPT !.pc = "cache", !.s3_key = up.key],
              w |-> [w EXCEPT !.store = up.store]]

\* mutant: the request that finds an entry of its id in the cache, written
\* by a request it raced with, leaves it alone; only the first one caches
GenCacheIfAbsent(rc, r, w) ==
    [r |-> [r EXCEPT !.pc = "sign"],
     w |-> IF rc /\ w.cache[r.certificate_id] = ""
           THEN [w EXCEPT !.cache[r.certificate_id] = r.s3_key]
           ELSE IF rc THEN [w EXCEPT !.cache[r.certificate_id] = ""] ELSE w]

\* mutant: the key of the cached response, which has no period in it, is
\* what is cached
GenCacheFlatKey(rc, r, w) ==
    [r |-> [r EXCEPT !.pc = "sign"],
     w |-> IF rc
           THEN [w EXCEPT !.cache[r.certificate_id] =
                              "certificates/" \o r.certificate_id \o ".pdf"]
           ELSE w]

\* mutant: the presigned URL is cached in place of the storage key
GenCacheUrl(rc, r, w) ==
    [r |-> [r EXCEPT !.pc = "sign"],
     w |-> IF rc
           THEN [w EXCEPT !.cache[r.certificate_id] =
                              PresignedUrl(r.s3_key, DefaultExpiration)]
           ELSE w]

\* "Cache the S3 key": redis_client.setex(f"cert:{id}", redis_ttl, s3_key)
GenCache(rc, r, w) ==
    [r |-> [r EXCEPT !.pc = "sign"],
     w |-> IF rc THEN [w EXCEPT !.cache[r.certificate_id] = r.s3_key] ELSE w]

\* "Generate presigned URL for immediate download" and the response
GenSign(r, w) ==
    IF r.fault = "sign"
    THEN [r |-> GenerateFailed(r), w |-> w]
    ELSE [r |-> [r EXCEPT !.pc = "done",
                          !.resp = [Response("generate", r.certificate_id, 200, "completed")
                                       EXCEPT !.s3_key = r.s3_key,
                                              !.url = PresignedUrl(r.s3_key, DefaultExpiration)]],
          w |-> w]

GenStep(rc, t, r, w) ==
    CASE r.pc = "check"  -> GenCheck(rc, r, w)
      [] r.pc = "render" -> GenRender(r, w)
      [] r.pc = "upload" -> GenUpload(t, r, w)
      [] r.pc = "cache"  -> GenCache(rc, r, w)
      [] r.pc = "sign"   -> GenSign(r, w)

\* the handler run from its first line to its return with nothing in between
RECURSIVE GenRun(_, _, _, _)
GenRun(rc, t, r, w) ==
    IF r.pc = "done"
    THEN [r |-> r, w |-> w]
    ELSE LET s == GenStep(rc, t, r, w) IN GenRun(rc, t, s.r, s.w)

GenerateOutcome(rc, t, w, certificate_id, payload, fault) ==
    GenRun(rc, t, NewRequest(certificate_id, payload, fault), w)

---------------------------------------------------------------------------
(* VerificationService.verify_certificate *)

\* verification_service = VerificationService(): the instance the verify
\* endpoint calls is built without a Redis client
verification_service_redis == FALSE

\* self.verify_base_url (production value)
VerifyBaseUrl == "https://tracks.microlearn.university/verify"

\* "Check Redis cache for S3 key"
CachedKey(rc, ca, certificate_id) == IF rc THEN ca[certificate_id] ELSE ""

\* `if now.day < 5`: only the first days of a month look back
GraceWindow(day) == day < GraceDay

\* mutant: no year rollover in January
PrevPeriodNoRollover(p) == Period(p.year, p.month - 1)

\* one month back, December of the year before when in January
PrevPeriod(p) ==
    IF p.month = 1 THEN Period(p.year - 1, 12) ELSE Period(p.year, p.month - 1)

\* `for _ in range(months_back)`: test_date walks back month by month
RECURSIVE MonthsBack(_, _)
MonthsBack(p, months_back) ==
    IF months_back = 0 THEN p ELSE MonthsBack(PrevPeriod(p), months_back - 1)

\* mutant: when no key exists the last key tried is taken for found
RECURSIVE LookbackLoopLastKey(_, _, _, _, _)
LookbackLoopLastKey(st, t, certificate_id, fault, months_back) ==
    LET d == MonthsBack(Period(t.year, t.month), months_back)
        k == Key(d.year, d.month, certificate_id)
    IN  IF Exists(st, k, fault) THEN k
        ELSE IF months_back + 1 < LookbackStop
        THEN LookbackLoopLastKey(st, t, certificate_id, fault, months_back + 1)
        ELSE k

\* `for months_back in range(2, 4)`: the first key that exists, the last
\* key tried when none does (exists is then False)
RECURSIVE LookbackLoop(_, _, _, _, _)
LookbackLoop(st, t, certificate_id, fault, months_back) ==
    LET d == MonthsBack(Period(t.year, t.month), months_back)
        k == Key(d.year, d.month, certificate_id)
    IN  IF Exists(st, k, fault) THEN k
        ELSE IF months_back + 1 < LookbackStop
        THEN LookbackLoop(st, t, certificate_id, fault, months_back + 1)
        ELSE ""

\* mutant: in the grace window the months further back are tried before
\* the previous month
PeriodSearchOldestFirst(st, t, certificate_id, fault) ==
    LET k0 == Key(t.year, t.month, certificate_id)
        p1 == PrevPeriod(Period(t.year, t.month))
        k1 == Key(p1.year, p1.month, certificate_id)
        kb == LookbackLoop(st, t, certificate_id, fault, LookbackFrom)
    IN  IF Exists(st, k0, fault) THEN k0
        ELSE IF GraceWindow(t.day)
        THEN IF kb # "" THEN kb
             ELSE IF Exists(st, k1, fault) THEN k1 ELSE ""
        ELSE ""

\* "If not in cache, construct expected key": the current period, then in
\* the grace window the previous month, then two and three months back.
\* The key that exists, "" when the search returns None.
PeriodSearch(st, t, certificate_id, fault) ==
    LET k0 == Key(t.year, t.month, certificate_id)
        p1 == PrevPeriod(Period(t.year, t.month))
        k1 == Key(p1.year, p1.month, certificate_id)
    IN  IF Exists(st, k0, fault) THEN k0
        ELSE IF GraceWindow(t.day)
        THEN IF Exists(st, k1, fault) THEN k1
             ELSE LookbackLoop(st, t, certificate_id, fault, LookbackFrom)
        ELSE ""

\* mutant: on a stale entry every entry of the cache is deleted
CachedLookupFlush(rc, st, ca, certificate_id, cached_key, fault) ==
    IF Exists(st, cached_key, fault)
    THEN [s3_key |-> cached_key, cache |-> ca]
    ELSE [s3_key |-> "",
          cache |-> IF rc THEN [i \in DOMAIN ca |-> ""] ELSE ca]

\* "Verify the cached key still exists": the cached key when it does; when
\* not, the entry is deleted (if this service has a client) and None returned
CachedLookup(rc, st, ca, certificate_id, cached_key, fault) ==
    IF Exists(st, cached_key, fault)
    THEN [s3_key |-> cached_key, cache |-> ca]
    ELSE [s3_key |-> "",
          cache |-> IF rc THEN [ca EXCEPT ![certificate_id] = ""] ELSE ca]

\* The key verify_certificate settles on ("" = it returns None) and the
\* cache it leaves.
ResolveKey(rc, st, ca, t, certificate_id, fault) ==
    LET cached_key == CachedKey(rc, ca, certificate_id)
    IN  IF cached_key = ""
        THEN [s3_key |-> PeriodSearch(st, t, certificate_id, fault), cache |-> ca]
        ELSE CachedLookup(rc, st, ca, certificate_id, cached_key, fault)

\* "Return basic verification info with placeholder data": the identity
\* fields of CertificateVerification (description=None is "")
Placeholders ==
    [user_name |-> "Certificate Holder",
     user_email |-> "certificate@microlearn.university",
     certificate_type |-> "track",
     title |-> "Certificate",
     description |-> "",
     items_completed |-> <<>>]

\* CertificateVerification(...): the placeholder record
VerificationRecord(certificate_id, s3_key) ==
    [Response("verify", certificate_id, 200, "verified")
        EXCEPT !.url = PresignedUrl(s3_key, DefaultExpiration),
               !.verification_url = VerifyBaseUrl \o "/" \o certificate_id]
      @@ Placeholders

\* type(exc).__name__ of the exception a failing backend call raises:
\* redis-py's ConnectionError, botocore's EndpointConnectionError out of
\* exists, the ValueError that generate_presigned_url and upload raise on
\* a ClientError
ExceptionType(fault) ==
    CASE fault = "cache" -> "ConnectionError"
      [] fault = "unreachable" -> "EndpointConnectionError"
      [] OTHER -> "ValueError"

\* verify_certificate: [raised, found, resp, cache]; it catches nothing
VerifyCertificate(rc, st, ca, t, certificate_id, fault) ==
    LET res == ResolveKey(rc, st, ca, t, certificate_id, fault)
    IN  IF (rc /\ fault = "cache") \/ ExistsRaises(fault)
        THEN [raised |-> TRUE, found |-> FALSE, resp |-> NoResp, cache |-> ca]
        ELSE IF res.s3_key = ""
        THEN [raised |-> FALSE, found |-> FALSE, resp |-> NoResp, cache |-> res.cache]
        ELSE IF fault = "sign"
        THEN [raised |-> TRUE, found |-> FALSE, resp |-> NoResp, cache |-> res.cache]
        ELSE [raised |-> FALSE, found |-> TRUE,
              resp |-> VerificationRecord(certificate_id, res.s3_key),
              cache |-> res.cache]

\* global_exception_handler: an exception no handler caught is answered
\* 500 with {"detail": "Internal server error", "type": type(exc).__name__}
UnhandledError(op, certificate_id, fault) ==
    HttpError(op, certificate_id, 500, "Internal server error")
      @@ [type |-> ExceptionType(fault)]

\* GET /certificates/{certificate_id}/verify: None becomes 404, an exception
\* reaches global_exception_handler
VerifyOutcome(st, ca, t, certificate_id, fault) ==
    LET v == VerifyCertificate(verification_service_redis, st, ca, t,
                               certificate_id, fault)
    IN  [cache |-> v.cache,
         resp |-> IF v.raised
                  THEN UnhandledError("verify", certificate_id, fault)
                  ELSE IF ~v.found
                  THEN HttpError("verify", certificate_id, 404,
                                 "Certificate not found or invalid.")
                  ELSE v.resp]

---------------------------------------------------------------------------
(* verify_certificate, one backend call per step *)

\* a call of verify_certificate: where it is, the key it holds in s3_key,
\* and what it returned (found = FALSE for None)
NewVerifier(certificate_id) ==
    [pc |-> "get", certificate_id |-> certificate_id, s3_key |-> "",
     found |-> FALSE]

IdleVerifier == [NewVerifier("") EXCEPT !.pc = "idle"]

\* "Check Redis cache for S3 key"
VerGet(rc, v, w) ==
    LET cached_key == CachedKey(rc, w.cache, v.certificate_id)
    IN  IF cached_key = ""
        THEN [v |-> [v EXCEPT !.pc = "search"], w |-> w]
        ELSE [v |-> [v EXCEPT !.pc = "exists", !.s3_key = cached_key], w |-> w]

\* "If not in cache, construct expected key": the period search, which
\* neither reads nor writes the cache, taken as one step
VerSearch(t, v, w) ==
    LET s3_key == PeriodSearch(w.store, t, v.certificate_id, "none")
    IN  IF s3_key = ""
        THEN [v |-> [v EXCEPT !.pc = "done"], w |-> w]
        ELSE [v |-> [v EXCEPT !.pc = "sign", !.s3_key = s3_key], w |-> w]

\* "Verify the cached key still exists"
VerExists(v, w) ==
    IF Exists(w.store, v.s3_key, "none")
    THEN [v |-> [v EXCEPT !.pc = "sign"], w |-> w]
    ELSE [v |-> [v EXCEPT !.pc = "delete"], w |-> w]

\* "Clear invalid cache entry" and return None
VerDelete(rc, v, w) ==
    [v |-> [v EXCEPT !.pc = "done"],
     w |-> IF rc THEN [w EXCEPT !.cache[v.certificate_id] = ""] ELSE w]

\* "Certificate exists - generate download URL" and the record
VerSign(v, w) == [v |-> [v EXCEPT !.pc = "done", !.found = TRUE], w |-> w]

VerStep(rc, t, v, w) ==
    CASE v.pc = "get"    -> VerGet(rc, v, w)
      [] v.pc = "search" -> VerSearch(t, v, w)
      [] v.pc = "exists" -> VerExists(v, w)
      [] v.pc = "delete" -> VerDelete(rc, v, w)
      [] v.pc = "sign"   -> VerSign(v, w)

---------------------------------------------------------------------------
(* get_certificate_status and get_certificate_download_url *)

\* mutant: the expected key is constructed only when no cache is configured
LookupKeyUnconfiguredOnly(rc, ca, t, certificate_id) ==
    IF rc THEN ca[certificate_id] ELSE Key(t.year, t.month, certificate_id)

\* "Check cache for S3 key", "If not in cache, construct the expected key"
LookupKey(rc, ca, t, certificate_id) ==
    LET s3_key == CachedKey(rc, ca, certificate_id)
    IN  IF s3_key = "" THEN Key(t.year, t.month, certificate_id) ELSE s3_key

\* GET /certificates/{certificate_id}
StatusOutcome(rc, st, ca, t, certificate_id, fault) ==
    LET s3_key == LookupKey(rc, ca, t, certificate_id)
    IN  IF (rc /\ fault = "cache") \/ ExistsRaises(fault)
        THEN HttpError("status", certificate_id, 500, "Failed to get certificate status")
        ELSE IF ~Exists(st, s3_key, fault)
        THEN [Response("status", certificate_id, 200, "not_found")
                 EXCEPT !.detail = "Certificate not found"]
        ELSE IF fault = "sign"
        THEN HttpError("status", certificate_id, 500, "Failed to get certificate status")
        ELSE [Response("status", certificate_id, 200, "completed")
                 EXCEPT !.url = PresignedUrl(s3_key, DefaultExpiration)]

\* mutant: with no usable cache entry the download URL is resolved by the
\* period search of verify
DownloadOutcomeLookback(rc, st, ca, t, certificate_id, fault) ==
    LET cached_key == CachedKey(rc, ca, certificate_id)
        found == PeriodSearch(st, t, certificate_id, fault)
        s3_key == IF cached_key # "" /\ Exists(st, cached_key, fault)
                  THEN cached_key ELSE found
    IN  IF s3_key = ""
        THEN HttpError("download", certificate_id, 404, "Certificate not found")
        ELSE [Response("download", certificate_id, 200, "ok")
                 EXCEPT !.url = PresignedUrl(s3_key, DownloadExpiration)]

\* GET /certificates/{certificate_id}/download-url
DownloadOutcome(rc, st, ca, t, certificate_id, fault) ==
    LET s3_key == LookupKey(rc, ca, t, certificate_id)
    IN  IF (rc /\ fault = "cache") \/ ExistsRaises(fault)
        THEN HttpError("download", certificate_id, 500, "Failed to generate download URL")
        ELSE IF ~Exists(st, s3_key, fault)
        THEN HttpError("download", certificate_id, 404, "Certificate not found")
        ELSE IF fault = "sign"
        THEN HttpError("download", certificate_id, 500, "Failed to generate download URL")
        ELSE [Response("download", certificate_id, 200, "ok")
                 EXCEPT !.url = PresignedUrl(s3_key, DownloadExpiration)]

---------------------------------------------------------------------------
(* generate_batch_certificates and get_batch_status *)

\* strftime('%Y%m%d')
DateStamp(t) == ToString(t.year) \o Pad2(t.month) \o Pad2(t.day)

\* isoformat(), to the day
IsoDate(t) == ToString(t.year) \o "-" \o Pad2(t.month) \o "-" \o Pad2(t.day)

\* uuid.uuid4().hex[:8].upper(): the random part of a job id
Uuids == {"1A2B3C4D", "5E6F7A8B"}

\* f"BATCH-{datetime.utcnow().strftime('%Y%m%d')}-{uuid.uuid4().hex[:8].upper()}"
JobId(t, u) == "BATCH-" \o DateStamp(t) \o "-" \o u

\* no batch:<job_id> hash is stored
NoJobs == << >>

\* hgetall of a key that holds no hash: the empty dictionary
NoJobInfo == [total |-> "", status |-> "", created_at |-> ""]

\* redis_client.hset(f"batch:{job_id}", mapping=...): the fields named are
\* written over whatever the hash held; Redis stores the values as strings
HSet(jb, job_id, mapping) ==
    [j \in DOMAIN jb \cup {job_id} |-> IF j = job_id THEN mapping ELSE jb[j]]

\* redis_client.hgetall(f"batch:{job_id}")
HGetAll(jb, job_id) == IF job_id \in DOMAIN jb THEN jb[job_id] ELSE NoJobInfo

\* one CertificateRequest of BatchCertificateRequest.certificates
CertRequest(certificate_id, payload) ==
    [certificate_id |-> certificate_id, payload |-> payload]

\* BatchCertificateResponse(job_id, total_certificates, status, certificates);
\* certificates=None is the empty sequence (a synchronous batch has at
\* least one request, min_items=1, so its list is never empty)
BatchResponse(job_id, total_certificates, status, certificates) ==
    Response("batch", "", 200, status)
      @@ [job_id |-> job_id, total_certificates |-> total_certificates,
          certificates |-> certificates]

\* `except Exception`: HTTPException(500), a response without a job
BatchFailed ==
    HttpError("batch", "", 500, "Failed to generate batch certificates")
      @@ [job_id |-> "", total_certificates |-> 0, certificates |-> <<>>]

\* the CertificateResponse appended for one request of the batch
BatchRecord(certificate_id, s3_key) ==
    [Response("generate", certificate_id, 200, "completed")
        EXCEPT !.s3_key = s3_key,
               !.url = PresignedUrl(s3_key, DefaultExpiration)]

\* the synchronous loop before its first request
BatchStart(st) ==
    [failed |-> FALSE, store |-> st, generated |-> <<>>, stored |-> 0,
     calls |-> NoCalls]

\* mutant: the record of a request is put at the head of the list
BatchItemPrepend(t, cert_request, fault, s) ==
    LET up == UploadCertificate(s.store, t, Render(cert_request.payload),
                                cert_request.certificate_id)
        s1 == [s EXCEPT !.calls.render = @ + 1]
        s2 == [s1 EXCEPT !.calls.upload = @ + 1]
        s3 == [s2 EXCEPT !.store = up.store, !.stored = @ + 1]
    IN  IF fault = "render" THEN [s1 EXCEPT !.failed = TRUE]
        ELSE IF fault = "upload" THEN [s2 EXCEPT !.failed = TRUE]
        ELSE IF fault = "sign" THEN [s3 EXCEPT !.failed = TRUE]
        ELSE [s3 EXCEPT !.generated =
                           <<BatchRecord(cert_request.certificate_id, up.key)>> \o @]

\* the body of `for cert_request in request.certificates`: render, upload,
\* sign, append; neither a cache read nor a cache write
BatchItem(t, cert_request, fault, s) ==
    LET up == UploadCertificate(s.store, t, Render(cert_request.payload),
                                cert_request.certificate_id)
        s1 == [s EXCEPT !.calls.render = @ + 1]
        s2 == [s1 EXCEPT !.calls.upload = @ + 1]
        s3 == [s2 EXCEPT !.store = up.store, !.stored = @ + 1]
    IN  IF fault = "render" THEN [s1 EXCEPT !.failed = TRUE]
        ELSE IF fault = "upload" THEN [s2 EXCEPT !.failed = TRUE]
        ELSE IF fault = "sign" THEN [s3 EXCEPT !.failed = TRUE]
        ELSE [s3 EXCEPT !.generated =
                           Append(@, BatchRecord(cert_request.certificate_id, up.key))]

\* `for cert_request in request.certificates`, from request i on; the
\* fault strikes request number `at`, an exception ends the loop
RECURSIVE BatchLoop(_, _, _, _, _, _)
BatchLoop(t, certificates, i, fault, at, s) ==
    IF i > Len(certificates) \/ s.failed
    THEN s
    ELSE BatchLoop(t, certificates, i + 1, fault, at,
                   BatchItem(t, certificates[i],
                             IF i = at THEN fault ELSE "none", s))

\* mutant: a failed batch takes its blobs out of the store again
BatchSyncRollback(t, st, job_id, certificates, fault, at) ==
    LET s == BatchLoop(t, certificates, 1, fault, at, BatchStart(st))
    IN  [store |-> IF s.failed THEN st ELSE s.store,
         stored |-> IF s.failed THEN 0 ELSE s.stored, calls |-> s.calls,
         resp |-> IF s.failed
                  THEN BatchFailed
                  ELSE BatchResponse(job_id, Len(certificates), "completed",
                                     s.generated)]

\* mutant: the list generated so far is returned when a request fails
BatchSyncPartial(t, st, job_id, certificates, fault, at) ==
    LET s == BatchLoop(t, certificates, 1, fault, at, BatchStart(st))
    IN  [store |-> s.store, stored |-> s.stored, calls |-> s.calls,
         resp |-> BatchResponse(job_id, Len(certificates), "completed", s.generated)]

\* "Process synchronously"
BatchSync(t, st, job_id, certificates, fault, at) ==
    LET s == BatchLoop(t, certificates, 1, fault, at, BatchStart(st))
    IN  [store |-> s.store, stored |-> s.stored, calls |-> s.calls,
         resp |-> IF s.failed
                  THEN BatchFailed
                  ELSE BatchResponse(job_id, Len(certificates), "completed",
                                     s.generated)]

\* mutant: the queued batch is generated on the spot
BatchAsyncEager(rc, t, st, jb, job_id, certificates, fault) ==
    LET s == BatchLoop(t, certificates, 1, "none", 0, BatchStart(st))
    IN  [store |-> s.store, jobs |-> jb, stored |-> s.stored, calls |-> s.calls,
         resp |-> BatchResponse(job_id, Len(certificates), "queued", <<>>)]

\* "Queue for async processing": the job hash is stored when there is a
\* Redis client, and the job id returned
BatchAsync(rc, t, st, jb, job_id, certificates, fault) ==
    IF rc /\ fault = "cache"
    THEN [store |-> st, jobs |-> jb, stored |-> 0, calls |-> NoCalls,
          resp |-> BatchFailed]
    ELSE [store |-> st,
          jobs |-> IF rc
                   THEN HSet(jb, job_id,
                             [total |-> ToString(Len(certificates)),
                              status |-> "queued",
                              created_at |-> IsoDate(t)])
                   ELSE jb,
          stored |-> 0, calls |-> NoCalls,
          resp |-> BatchResponse(job_id, Len(certificates), "queued", <<>>)]

\* POST /certificates/batch
GenerateBatchOutcome(rc, t, st, jb, u, certificates, async_processing, fault, at) ==
    IF async_processing
    THEN BatchAsync(rc, t, st, jb, JobId(t, u), certificates, fault)
    ELSE BatchSync(t, st, JobId(t, u), certificates, fault, at) @@ [jobs |-> jb]

\* GET /batch/{job_id}
BatchStatusOutcome(rc, jb, job_id, fault) ==
    IF ~rc
    THEN HttpError("batch_status", "", 503, "Redis not available")
    ELSE IF fault = "cache"
    THEN HttpError("batch_status", "", 500, "Failed to get batch status")
    ELSE IF HGetAll(jb, job_id) = NoJobInfo
    THEN HttpError("batch_status", "", 404, "Batch job not found")
    ELSE Response("batch_status", "", 200, "ok")
           @@ [job_id |-> job_id, job_info |-> HGetAll(jb, job_id)]

---------------------------------------------------------------------------
(* The storage backends: S3Storage and LocalStorage *)

\* settings.service_name
ServiceName == "certificate-generation-service"

\* the keys the backends are called with
BackendKeys ==
    {Key(PeriodAt(n).year, PeriodAt(n).month, i) : n \in {0, 1}, i \in IDs}

\* the file LocalStorage.get_metadata reads: f"{key}.meta"
MetaPath(key) == key \o ".meta"

\* a metadata mapping as a set of <<name, value>> pairs
NoMetadata == {}

\* what a backend call returns: upload the key (data), download the bytes
\* or None (found = FALSE), delete and exists a bool (found), get_metadata a
\* mapping or None (found = FALSE)
Result(found, data, metadata) ==
    [found |-> found, data |-> data, metadata |-> metadata]

NoResult == Result(FALSE, "", NoMetadata)

\* an S3 object: body and user metadata (body "" = no such key)
NoObject == [body |-> "", metadata |-> NoMetadata]

\* the bucket and the directory under base_path, both empty, and no call made
NoBackends ==
    [s3 |-> [k \in BackendKeys |-> NoObject],
     files |-> [f \in BackendKeys \cup {MetaPath(k) : k \in BackendKeys} |-> ""],
     call |-> "", key |-> "", s3_result |-> NoResult, local_result |-> NoResult]

\* S3Storage.upload: put_object with the metadata uploaded_at and service
S3Upload(s3, t, file_data, key) ==
    [s3 |-> [s3 EXCEPT ![key] =
                [body |-> file_data,
                 metadata |-> {<<"uploaded_at", IsoDate(t)>>,
                               <<"service", ServiceName>>}]],
     result |-> Result(TRUE, key, NoMetadata)]

\* LocalStorage.upload: the bytes are written to base_path / key
LocalUpload(files, file_data, key) ==
    [files |-> [files EXCEPT ![key] = file_data],
     result |-> Result(TRUE, key, NoMetadata)]

\* S3Storage.download: NoSuchKey reads as None
S3Download(s3, key) ==
    IF s3[key].body = "" THEN NoResult ELSE Result(TRUE, s3[key].body, NoMetadata)

\* LocalStorage.download
LocalDownload(files, key) ==
    IF files[key] = "" THEN NoResult ELSE Result(TRUE, files[key], NoMetadata)

\* S3Storage.delete: delete_object succeeds whether or not the key held an
\* object, and True is returned
S3Delete(s3, key) ==
    [s3 |-> [s3 EXCEPT ![key] = NoObject], result |-> Result(TRUE, "", NoMetadata)]

\* LocalStorage.delete: True when the file existed and was unlinked
LocalDelete(files, key) ==
    [files |-> [files EXCEPT ![key] = ""],
     result |-> Result(files[key] # "", "", NoMetadata)]

\* S3Storage.exists: head_object
S3Exists(s3, key) == Result(s3[key].body # "", "", NoMetadata)

\* LocalStorage.exists
LocalExists(files, key) == Result(files[key] # "", "", NoMetadata)

\* S3Storage.get_metadata: response.get('Metadata', {}), None when
\* head_object fails
S3GetMetadata(s3, key) ==
    IF s3[key].body = "" THEN NoResult ELSE Result(TRUE, "", s3[key].metadata)

\* LocalStorage.get_metadata: the contents of the file f"{key}.meta", None
\* when there is no such file (no method of LocalStorage writes one)
LocalGetMetadata(files, key) ==
    IF files[MetaPath(key)] = ""
    THEN NoResult
    ELSE Result(TRUE, "", {<<"json", files[MetaPath(key)]>>})

---------------------------------------------------------------------------
(* The state machine *)

\* the backend call that fails during one request ("none": none does)
GenerateFaults == {"none", "cache", "render", "upload", "sign"}
LookupFaults == {"none", "cache", "exists", "sign"}
StoreFaults == LookupFaults \cup {"unreachable"}
RaceFaults == {"none", "render", "upload"}

Request(op, certificate_id, payload, fault, made) ==
    [op |-> op, certificate_id |-> certificate_id, payload |-> payload,
     fault |-> fault, calls |-> made]

Init ==
    /\ now = [year |-> StartYear, month |-> StartMonth, day |-> 1]
    /\ store = [k \in AllKeys |-> ""]
    /\ cache = [i \in IDs |-> ""]
    /\ redis_configured \in BOOLEAN
    /\ uploads = 0
    /\ req = NoReq
    /\ resp = NoResp
    /\ procs = [p \in 1..NumReqs |-> IdleRequest]
    /\ jobs = NoJobs
    /\ backends = NoBackends
    /\ verifier = IdleVerifier
    /\ issued = {}

\* The server takes the next request once the response of the one before
\* has been returned (the handlers of Spec run one after the other).
Ready == req = NoReq

\* the response is sent to the client
Return ==
    /\ req # NoReq
    /\ req' = NoReq
    /\ resp' = NoResp
    /\ UNCHANGED <<now, store, cache, redis_configured, uploads, procs, issued, jobs, backends, verifier>>

\* 1 when the request put an object into the store
Uploaded(r) == IF r.s3_key # "" THEN 1 ELSE 0

\* POST /certificates/generate with a caller-supplied certificate_id
Generate(certificate_id, payload, fault) ==
    LET out == GenerateOutcome(redis_configured, now, World, certificate_id, payload, fault)
    IN  /\ Ready
        /\ uploads + Uploaded(out.r) <= MaxUploads
        /\ store' = out.w.store
        /\ cache' = out.w.cache
        /\ uploads' = uploads + Uploaded(out.r)
        /\ req' = Request("generate", certificate_id, payload, fault, out.r.calls)
        /\ resp' = out.r.resp
        /\ issued' = IF out.r.resp.status = "completed"
                     THEN issued \cup {certificate_id} ELSE issued
        /\ UNCHANGED <<now, redis_configured, procs, jobs, backends, verifier>>

\* GET /certificates/{certificate_id}/verify
Verify(certificate_id, fault) ==
    LET out == VerifyOutcome(store, cache, now, certificate_id, fault)
    IN  /\ Ready
        /\ cache' = out.cache
        /\ req' = Request("verify", certificate_id, "", fault, NoCalls)
        /\ resp' = out.resp
        /\ UNCHANGED <<now, store, redis_configured, uploads, procs, issued, jobs, backends, verifier>>

\* GET /certificates/{certificate_id}
Status(certificate_id, fault) ==
    /\ Ready
    /\ req' = Request("status", certificate_id, "", fault, NoCalls)
    /\ resp' = StatusOutcome(redis_configured, store, cache, now, certificate_id, fault)
    /\ UNCHANGED <<now, store, cache, redis_configured, uploads, procs, issued, jobs, backends, verifier>>

\* GET /certificates/{certificate_id}/download-url
Download(certificate_id, fault) ==
    /\ Ready
    /\ req' = Request("download", certificate_id, "", fault, NoCalls)
    /\ resp' = DownloadOutcome(redis_configured, store, cache, now, certificate_id, fault)
    /\ UNCHANGED <<now, store, cache, redis_configured, uploads, procs, issued, jobs, backends, verifier>>

\* datetime.utcnow() moves on to a later day of the month
NextDay ==
    /\ Ready
    /\ \E d \in ClockDays :
          /\ d > now.day
          /\ now' = [now EXCEPT !.day = d]
    /\ UNCHANGED <<store, cache, redis_configured, uploads, req, resp, procs, issued, jobs, backends, verifier>>

\* datetime.utcnow() moves on to the first day of the next month
NextMonth ==
    /\ Ready
    /\ Elapsed < MaxMonths
    /\ now' = [year |-> PeriodAt(Elapsed + 1).year,
               month |-> PeriodAt(Elapsed + 1).month, day |-> 1]
    /\ issued' = {}
    /\ UNCHANGED <<store, cache, redis_configured, uploads, req, resp, procs, jobs, backends, verifier>>

\* StorageService.delete_certificate(key)
DeleteCertificate(key) ==
    /\ Ready
    /\ store[key] # ""
    /\ store' = [store EXCEPT ![key] = ""]
    /\ issued' = {i \in issued : key # Key(now.year, now.month, i)}
    /\ UNCHANGED <<now, cache, redis_configured, uploads, req, resp, procs, jobs, backends, verifier>>

\* the entry written by setex(..., settings.redis_ttl, ...) expires.  The
\* time to live is a setting (default one hour); the model ties it to no
\* number of clock steps, so an entry may outlive a month or expire at once.
CacheExpire(certificate_id) ==
    /\ Ready
    /\ cache[certificate_id] # ""
    /\ cache' = [cache EXCEPT ![certificate_id] = ""]
    /\ UNCHANGED <<now, store, redis_configured, uploads, req, resp, procs, issued, jobs, backends, verifier>>

Next ==
    \/ \E i \in IDs, p \in Payloads, f \in GenerateFaults : Generate(i, p, f)
    \/ \E i \in IDs, f \in LookupFaults : Verify(i, f)
    \/ \E i \in IDs, f \in LookupFaults : Status(i, f)
    \/ \E i \in IDs, f \in LookupFaults : Download(i, f)
    \/ Return
    \/ NextDay
    \/ NextMonth
    \/ \E k \in AllKeys : DeleteCertificate(k)
    \/ \E i \in IDs : CacheExpire(i)

Spec == Init /\ [][Next]_vars

---------------------------------------------------------------------------
(* Concurrent generate requests: several workers share the store and the  *)
(* cache, and a request may be overtaken between any two backend calls.    *)

\* a worker takes a generate request
RaceStart(p, certificate_id, payload, fault) ==
    /\ procs[p].pc = "idle"
    /\ procs' = [procs EXCEPT ![p] = NewRequest(certificate_id, payload, fault)]
    /\ UNCHANGED <<now, store, cache, redis_configured, uploads, req, resp, issued, jobs, backends, verifier>>

\* a worker runs its request up to the next backend call
RaceStep(p) ==
    LET s == GenStep(redis_configured, now, procs[p], World)
    IN  /\ procs[p].pc \notin {"idle", "done"}
        /\ procs' = [procs EXCEPT ![p] = s.r]
        /\ store' = s.w.store
        /\ cache' = s.w.cache
        /\ uploads' = uploads + (s.r.calls.upload - procs[p].calls.upload)
        /\ UNCHANGED <<now, redis_configured, req, resp, issued, jobs, backends, verifier>>

NextRace ==
    \/ \E p \in 1..NumReqs, i \in IDs, c \in RacePayloads, f \in RaceFaults :
          RaceStart(p, i, c, f)
    \/ \E p \in 1..NumReqs : RaceStep(p)

SpecRace == Init /\ [][NextRace]_vars

---------------------------------------------------------------------------
(* Every request handler, batch requests included, on one date; the store *)
(* may fail to answer.                                                     *)

\* the call that fails during one batch request: storing the job hash (the
\* asynchronous branch), or a call of the synchronous loop
BatchFaults == {"none", "cache"}
BatchItemFaults == {"render", "upload", "sign"}

\* BatchCertificateRequest.certificates: one request or more (min_items=1)
BatchRequests ==
    UNION {[1..n -> {CertRequest(i, c) : i \in IDs, c \in Payloads}] : n \in 1..MaxBatch}

\* the job ids a client may ask about: those of today, and those stored
KnownJobs == DOMAIN jobs \cup {JobId(now, u) : u \in Uuids}

\* POST /certificates/batch; the fault strikes request number `at` of the
\* synchronous loop (0: none of them)
GenerateBatch(u, certificates, async_processing, fault, at) ==
    LET out == GenerateBatchOutcome(redis_configured, now, store, jobs, u,
                                    certificates, async_processing, fault, at)
    IN  /\ Ready
        /\ uploads + out.stored <= MaxUploads
        /\ Cardinality(DOMAIN out.jobs) <= MaxJobs
        /\ store' = out.store
        /\ jobs' = out.jobs
        /\ uploads' = uploads + out.stored
        /\ req' = Request("batch", "", "", fault, out.calls)
                    @@ [certificates |-> certificates,
                        async_processing |-> async_processing,
                        at |-> at, job_id |-> JobId(now, u)]
        /\ resp' = out.resp
        /\ UNCHANGED <<now, cache, redis_configured, procs, issued, backends, verifier>>

\* GET /batch/{job_id}
BatchStatus(job_id, fault) ==
    /\ Ready
    /\ req' = Request("batch_status", "", "", fault, NoCalls) @@ [job_id |-> job_id]
    /\ resp' = BatchStatusOutcome(redis_configured, jobs, job_id, fault)
    /\ UNCHANGED <<now, store, cache, redis_configured, uploads, procs, issued, jobs, backends, verifier>>

NextBatch ==
    \/ \E i \in IDs, c \in Payloads, f \in GenerateFaults : Generate(i, c, f)
    \/ \E u \in Uuids, cs \in BatchRequests, f \in BatchFaults :
          GenerateBatch(u, cs, TRUE, f, 0)
    \/ \E u \in Uuids, cs \in BatchRequests :
          GenerateBatch(u, cs, FALSE, "none", 0)
    \/ \E u \in Uuids, cs \in BatchRequests, f \in BatchItemFaults :
          \E at \in 1..Len(cs) : GenerateBatch(u, cs, FALSE, f, at)
    \/ \E j \in KnownJobs, f \in {"none", "cache"} : BatchStatus(j, f)
    \/ \E i \in IDs, f \in StoreFaults : Verify(i, f)
    \/ \E i \in IDs, f \in StoreFaults : Status(i, f)
    \/ \E i \in IDs, f \in StoreFaults : Download(i, f)
    \/ Return
    \/ \E k \in AllKeys : DeleteCertificate(k)
    \/ \E i \in IDs : CacheExpire(i)

SpecBatch == Init /\ [][NextBatch]_vars

---------------------------------------------------------------------------
(* Generation and verification over the calendar: requests that differ in *)
(* their contents (user, title, issued_date, ...) as the months go by.     *)

NextPeriods ==
    \/ \E i \in IDs, c \in RacePayloads, f \in {"none", "upload"} : Generate(i, c, f)
    \/ \E i \in IDs : Verify(i, "none")
    \/ Return
    \/ NextMonth

SpecPeriods == Init /\ [][NextPeriods]_vars

---------------------------------------------------------------------------
(* verify_certificate of a VerificationService that was given the cache   *)
(* client, running next to generate requests, deletions and expiries       *)

\* the service takes a verify call
VerifyRaceStart(certificate_id) ==
    /\ verifier.pc \in {"idle", "done"}
    /\ verifier' = NewVerifier(certificate_id)
    /\ UNCHANGED <<now, store, cache, redis_configured, uploads, req, resp,
                   procs, jobs, backends, issued>>

\* the call runs up to its next backend call
VerifyRaceStep ==
    LET s == VerStep(redis_configured, now, verifier, World)
    IN  /\ verifier.pc \notin {"idle", "done"}
        /\ verifier' = s.v
        /\ cache' = s.w.cache
        /\ UNCHANGED <<now, store, redis_configured, uploads, req, resp,
                       procs, jobs, backends, issued>>

NextVerifyRace ==
    \/ \E i \in IDs : VerifyRaceStart(i)
    \/ VerifyRaceStep
    \/ \E p \in 1..NumReqs, i \in IDs, c \in Payloads :
          RaceStart(p, i, c, "none")
    \/ \E p \in 1..NumReqs : RaceStep(p)
    \/ \E k \in AllKeys : DeleteCertificate(k)
    \/ \E i \in IDs : CacheExpire(i)

SpecVerifyRace == Init /\ [][NextVerifyRace]_vars

---------------------------------------------------------------------------
(* The same calls made on both storage backends *)

\* one call made on the S3 backend and on the local one
BackendCall(call, key, s3_out, local_out) ==
    /\ backends' = [s3 |-> s3_out.s3, files |-> local_out.files,
                    call |-> call, key |-> key,
                    s3_result |-> s3_out.result,
                    local_result |-> local_out.result]
    /\ UNCHANGED <<now, store, cache, redis_configured, uploads, req, resp,
                   procs, jobs, issued, verifier>>

BackendUpload(key, file_data) ==
    BackendCall("upload", key, S3Upload(backends.s3, now, file_data, key),
                LocalUpload(backends.files, file_data, key))

BackendDownload(key) ==
    BackendCall("download", key,
                [s3 |-> backends.s3, result |-> S3Download(backends.s3, key)],
                [files |-> backends.files,
                 result |-> LocalDownload(backends.files, key)])

BackendDelete(key) ==
    BackendCall("delete", key, S3Delete(backends.s3, key),
                LocalDelete(backends.files, key))

BackendExists(key) ==
    BackendCall("exists", key,
                [s3 |-> backends.s3, result |-> S3Exists(backends.s3, key)],
                [files |-> backends.files,
                 result |-> LocalExists(backends.files, key)])

BackendGetMetadata(key) ==
    BackendCall("get_metadata", key,
                [s3 |-> backends.s3, result |-> S3GetMetadata(backends.s3, key)],
                [files |-> backends.files,
                 result |-> LocalGetMetadata(backends.files, key)])

NextBackends ==
    \/ \E k \in BackendKeys, c \in RacePayloads : BackendUpload(k, Render(c))
    \/ \E k \in BackendKeys : BackendDownload(k)
    \/ \E k \in BackendKeys : BackendDelete(k)
    \/ \E k \in BackendKeys : BackendExists(k)
    \/ \E k \in BackendKeys : BackendGetMetadata(k)

SpecBackends == Init /\ [][NextBackends]_vars

---------------------------------------------------------------------------
(* Properties *)

\* the handler that has just returned
Returned(op) == req.op = op

\* the periods under whose key the store holds a blob for the id
BlobPeriods(certificate_id) ==
    {p \in Periods : store[Key(p.year, p.month, certificate_id)] # ""}

\* the URL is a one-hour URL for a key the store holds
UrlOfStoredKey(url) ==
    \E k \in AllKeys : store[k] # "" /\ url = PresignedUrl(k, 3600)

\* C1: round trip.  For every id generate has answered "completed" for,
\* while the calendar period is the same and the blob has not been deleted,
\* a verify request arriving now is answered 200 with a download URL for a
\* key the store holds and a get_status request "completed" with a download
\* URL; and so is every verify or get_status request that has actually
\* just been handled.
C1_RoundTrip ==
    /\ Ready =>
          \A i \in issued :
             LET v == VerifyOutcome(store, cache, now, i, "none").resp
                 g == StatusOutcome(redis_configured, store, cache, now, i, "none")
             IN  /\ v.http = 200
                 /\ UrlOfStoredKey(v.url)
                 /\ g.status = "completed"
                 /\ UrlOfStoredKey(g.url)
    /\ (/\ req.certificate_id \in issued
        /\ req.fault = "none"
        /\ req.op \in {"verify", "status"})
       => /\ resp.http = 200
          /\ resp.status \in {"verified", "completed"}
          /\ UrlOfStoredKey(resp.url)

\* C1 witness: an id was generated, its cache entry has expired since, and
\* a verify request for it has just been answered 200
C1_Witness ==
    /\ redis_configured
    /\ Returned("verify")
    /\ req.certificate_id \in issued
    /\ cache[req.certificate_id] = ""
    /\ now.day > 1
    /\ resp.http = 200

\* {P} when the store holds a blob for the id under the key of exactly one
\* period P and P is earlier than the current period, {} otherwise
SoleEarlierPeriod(certificate_id) ==
    LET bp == BlobPeriods(certificate_id)
    IN  {p \in bp : bp = {p} /\ MonthsBetween(p, now) >= 1}

\* what C2 says verify answers for the id when the store holds its blob
\* under the key of period p only
LookbackAnswer(certificate_id, p, v) ==
    LET inWindow == now.day < 5 /\ MonthsBetween(p, now) \in 1..3
    IN  /\ inWindow => /\ v.http = 200
                       /\ v.url = PresignedUrl(Key(p.year, p.month, certificate_id), 3600)
        /\ ~inWindow => v.http = 404

\* C2: lookback boundary.  When the store holds a blob for the id under the
\* key of exactly one period P, and P is earlier than the current period,
\* verify finds it (and signs that key) exactly when the day of the month is
\* before the 5th and P is 1, 2 or 3 months back; otherwise it answers 404.
\* This is so of a verify request arriving in any state, and of every
\* verify request that has just been handled.
C2_LookbackBoundary ==
    /\ Ready =>
          \A i \in IDs : \A p \in SoleEarlierPeriod(i) :
             LookbackAnswer(i, p, VerifyOutcome(store, cache, now, i, "none").resp)
    /\ (Returned("verify") /\ req.fault = "none") =>
          \A p \in SoleEarlierPeriod(req.certificate_id) :
             LookbackAnswer(req.certificate_id, p, resp)

\* C2 witness: on the 4th of a month verify has just found a blob filed
\* three months back, in the year before
C2_Witness ==
    /\ Returned("verify")
    /\ resp.http = 200
    /\ now.day = 4
    /\ \E p \in Periods :
          /\ MonthsBetween(p, now) = 3
          /\ p.year = now.year - 1
          /\ BlobPeriods(req.certificate_id) = {p}

\* the other side of C2 is reached too: on the 1st of a month verify has
\* just answered 404 for a blob filed four months back
C2_OutOfWindowReached ==
    /\ Returned("verify")
    /\ resp.http = 404
    /\ now.day = 1
    /\ \E p \in SoleEarlierPeriod(req.certificate_id) : MonthsBetween(p, now) = 4


\* a request of the kind has just been taken and answered in this step
Handled(op) == Ready /\ req'.op = op

\* C3: stale-cache invalidation.  A verify request for an id whose cache
\* entry names a key the store no longer holds deletes that entry and then
\* answers from the full period search: 404 only if no probed period holds
\* a blob for the id.
C3_StaleCacheInvalidation ==
    [][\A i \in IDs :
          (/\ Handled("verify")
           /\ req'.certificate_id = i
           /\ req'.fault = "none"
           /\ cache[i] # ""
           /\ ~Exists(store, cache[i], "none"))
          => /\ cache'[i] = ""
             /\ resp'.http = 404 <=> PeriodSearch(store, now, i, "none") = ""
             /\ resp'.http = 200 <=> PeriodSearch(store, now, i, "none") # ""]_vars

\* C4: cache-first fast path.  A verify request for an id whose cache entry
\* names a key the store holds is answered 200 with a URL for that cached
\* key, whatever the date.
C4_CacheFirstFastPath ==
    (/\ Returned("verify")
     /\ req.fault = "none"
     /\ cache[req.certificate_id] # ""
     /\ Exists(store, cache[req.certificate_id], "none"))
    => /\ resp.http = 200
       /\ resp.url = PresignedUrl(cache[req.certificate_id], 3600)

\* C5: idempotent replay.  A generate request for an id that has a live
\* cache entry (cache configured and reachable) is answered "cached", calls
\* neither the renderer nor the store, and leaves store and cache as they were.
C5_IdempotentReplay ==
    [][(/\ Handled("generate")
        /\ redis_configured
        /\ req'.fault # "cache"
        /\ cache[req'.certificate_id] # "")
       => /\ resp'.http = 200
          /\ resp'.status = "cached"
          /\ req'.calls = NoCalls
          /\ store' = store
          /\ cache' = cache]_vars

\* C5 witness: a generate request has just been answered from the cache
C5_Witness ==
    /\ Returned("generate")
    /\ resp.status = "cached"
    /\ store[cache[req.certificate_id]] # ""

\* C6: no partial state on failure.  A generate request whose render or
\* upload fails is answered with a generation failure (500) and leaves the
\* cache as it was; and whenever a generate request changes a cache entry,
\* it is the entry of its own id, its upload has succeeded, and the entry
\* names the key under which the store now holds what was rendered.
C6_NoPartialState ==
    [][Handled("generate")
       => /\ (req'.fault \in {"render", "upload"} /\ req'.calls.render = 1)
             => /\ resp'.http = 500
                /\ resp'.status = "error"
                /\ cache' = cache
          /\ \A i \in IDs :
                cache'[i] # cache[i]
                => /\ i = req'.certificate_id
                   /\ req'.calls.upload = 1
                   /\ req'.fault \notin {"render", "upload"}
                   /\ cache'[i] = Key(now.year, now.month, i)
                   /\ store'[cache'[i]] = Render(req'.payload)]_vars

\* C6 witness: the upload of a generate request has just failed, with the
\* cache configured
C6_Witness ==
    /\ Returned("generate")
    /\ redis_configured
    /\ req.fault = "upload"
    /\ req.calls.upload = 1
    /\ resp.http = 500
    /\ cache[req.certificate_id] = ""

\* C7: cache failure degrades gracefully.  No request is answered with an
\* error because the configured cache is unreachable.
C7_CacheFailureDegrades ==
    (req.op # "" /\ redis_configured /\ req.fault = "cache") => resp.http # 500

\* C8: cache transparency.  To a request for an id without a cache entry
\* every handler gives the same response, and generate leaves the same
\* store, with a cache configured as with none.
C8_CacheTransparency ==
    \A i \in IDs :
        (Ready /\ cache[i] = "")
        => /\ \A c \in Payloads :
                LET a == GenerateOutcome(TRUE, now, World, i, c, "none")
                    b == GenerateOutcome(FALSE, now, World, i, c, "none")
                IN  a.r.resp = b.r.resp /\ a.w.store = b.w.store
           /\ StatusOutcome(TRUE, store, cache, now, i, "none")
                = StatusOutcome(FALSE, store, cache, now, i, "none")
           /\ DownloadOutcome(TRUE, store, cache, now, i, "none")
                = DownloadOutcome(FALSE, store, cache, now, i, "none")
           /\ VerifyCertificate(TRUE, store, cache, now, i, "none").resp
                = VerifyCertificate(FALSE, store, cache, now, i, "none").resp

\* C8 witness: with a cache configured, the entry of a generated id has
\* expired and a status request for it has just been answered "completed"
C8_Witness ==
    /\ redis_configured
    /\ Returned("status")
    /\ req.fault = "none"
    /\ cache[req.certificate_id] = ""
    /\ resp.status = "completed"

\* C9: get_status resolves as verify does.  In every state get_status
\* reports "completed" for an id exactly when verify finds it.
C9_StatusSameAsVerify ==
    \A i \in IDs :
        StatusOutcome(redis_configured, store, cache, now, i, "none").status = "completed"
        <=> VerifyOutcome(store, cache, now, i, "none").resp.http = 200

\* C10: accepted race.  A generate request passes the cache check whenever
\* the cache holds no entry for its id, whatever other requests for the id
\* are in flight, no request in flight is ever blocked, and an upload
\* replaces whatever the key held (last write wins).
C10_AcceptedRace ==
    [][\A p \in 1..NumReqs :
          /\ (procs[p].pc \notin {"idle", "done"}) => ENABLED RaceStep(p)
          /\ (/\ procs[p].pc = "check"
              /\ procs'[p] # procs[p]
              /\ cache[procs[p].certificate_id] = "")
             => procs'[p].pc = "render"
          /\ (procs[p].pc = "upload" /\ procs'[p].pc = "cache")
             => store'[procs'[p].s3_key] = procs[p].pdf]_vars

\* C10 witness: two requests for one id with different contents have both
\* passed the cache check, rendered, uploaded and been answered
\* "completed"; the store holds what the second one uploaded
C10_Witness ==
    /\ procs[1].certificate_id = procs[2].certificate_id
    /\ procs[1].payload # procs[2].payload
    /\ procs[1].resp.status = "completed"
    /\ procs[2].resp.status = "completed"
    /\ procs[1].calls = [render |-> 1, upload |-> 1]
    /\ procs[2].calls = [render |-> 1, upload |-> 1]
    /\ procs[1].s3_key = procs[2].s3_key
    /\ store[procs[1].s3_key] = procs[2].pdf

\* the store and cache left by calling generate on each request in order
RECURSIVE GenerateEach(_, _, _, _, _)
GenerateEach(rc, t, w, certificates, i) ==
    IF i > Len(certificates)
    THEN w
    ELSE GenerateEach(rc, t,
                      GenerateOutcome(rc, t, w, certificates[i].certificate_id,
                                      certificates[i].payload, "none").w,
                      certificates, i + 1)

\* the renderer calls made by calling generate on each request in order
RECURSIVE RendersOfEach(_, _, _, _, _)
RendersOfEach(rc, t, w, certificates, i) ==
    IF i > Len(certificates)
    THEN 0
    ELSE LET out == GenerateOutcome(rc, t, w, certificates[i].certificate_id,
                                    certificates[i].payload, "none")
         IN  out.r.calls.render + RendersOfEach(rc, t, out.w, certificates, i + 1)

\* C11: a synchronous batch is generate on each request in order.  A
\* synchronous batch call in which nothing fails leaves the store and the
\* cache that calling generate on each of its requests in order leaves,
\* renders as often (a request whose id is cached is not rendered again),
\* and with a cache configured every request's id has a cache entry after it.
C11_BatchAsGenerateEach ==
    [][(/\ Handled("batch")
        /\ ~req'.async_processing
        /\ req'.fault = "none")
       => LET w == GenerateEach(redis_configured, now, World, req'.certificates, 1)
          IN  /\ store' = w.store
              /\ cache' = w.cache
              /\ req'.calls.render
                   = RendersOfEach(redis_configured, now, World, req'.certificates, 1)
              /\ redis_configured
                 => \A k \in 1..Len(req'.certificates) :
                       cache'[req'.certificates[k].certificate_id] # ""]_vars

\* no render, upload or signing call of the batch request has failed
BatchUnfailed == req.fault \notin {"render", "upload", "sign"}

\* C12: records of a synchronous batch.  A synchronous batch call on n
\* requests in which no generation fails is answered with a job of status
\* "completed", total_certificates = n and n certificate records, the k-th
\* of them "completed" and carrying the certificate id of the k-th request.
C12_SyncBatchRecords ==
    (/\ Returned("batch")
     /\ ~req.async_processing
     /\ BatchUnfailed)
    => /\ resp.http = 200
       /\ resp.status = "completed"
       /\ resp.job_id = req.job_id
       /\ resp.total_certificates = Len(req.certificates)
       /\ Len(resp.certificates) = Len(req.certificates)
       /\ \A k \in 1..Len(req.certificates) :
             /\ resp.certificates[k].status = "completed"
             /\ resp.certificates[k].certificate_id = req.certificates[k].certificate_id

\* C12 witness: a synchronous batch for B, then A has just been answered
\* with two records, in that order
C12_Witness ==
    /\ Returned("batch")
    /\ ~req.async_processing
    /\ BatchUnfailed
    /\ Len(req.certificates) = 2
    /\ req.certificates[1].certificate_id = "B"
    /\ req.certificates[2].certificate_id = "A"
    /\ resp.status = "completed"
    /\ Len(resp.certificates) = 2
    /\ resp.certificates[1].certificate_id = "B"

\* C13: an asynchronous batch generates nothing.  An asynchronous batch
\* call makes no renderer and no store call and leaves the blob store and
\* every cert:<id> cache entry as they were; unless storing the job hash
\* fails, it is answered with a job of status "queued", total_certificates
\* = number of requests, and no certificate records.
C13_AsyncGeneratesNothing ==
    [][(Handled("batch") /\ req'.async_processing)
       => /\ req'.calls = NoCalls
          /\ store' = store
          /\ cache' = cache
          /\ uploads' = uploads
          /\ (req'.fault # "cache" \/ ~redis_configured)
             => /\ resp'.http = 200
                /\ resp'.status = "queued"
                /\ resp'.total_certificates = Len(req'.certificates)
                /\ resp'.certificates = <<>>]_vars

\* C13 witness: an asynchronous batch for two ids has just been answered
\* "queued", and the store holds no blob for either id
C13_Witness ==
    /\ Returned("batch")
    /\ req.async_processing
    /\ redis_configured
    /\ resp.status = "queued"
    /\ resp.total_certificates = 2
    /\ {req.certificates[k].certificate_id : k \in 1..2} = IDs
    /\ \A i \in IDs : BlobPeriods(i) = {} /\ cache[i] = ""

\* C14: a failing request fails the whole synchronous batch.  A synchronous
\* batch call in which the render or the upload of one request fails is
\* answered with a generation error (500) carrying no job and no
\* certificate record, whatever was generated before the failing request;
\* it is never answered "completed".
C14_BatchFailsWhole ==
    (/\ Returned("batch")
     /\ ~req.async_processing
     /\ req.fault \in {"render", "upload"})
    => /\ resp.http = 500
       /\ resp.status = "error"
       /\ resp.detail = "Failed to generate batch certificates"
       /\ resp.certificates = <<>>
       /\ resp.job_id = ""

\* C14 witness: the upload of the second request of a synchronous batch
\* has just failed after the first request was rendered and uploaded; the
\* store holds the first blob and the answer is the error
C14_Witness ==
    /\ Returned("batch")
    /\ ~req.async_processing
    /\ req.fault = "upload"
    /\ req.at = 2
    /\ req.calls = [render |-> 2, upload |-> 2]
    /\ uploads = 1
    /\ store[Key(now.year, now.month, req.certificates[1].certificate_id)] # ""
    /\ resp.http = 500

\* the job hash that an asynchronous batch of n requests made at t stores
QueuedJob(n, t) ==
    [total |-> ToString(n), status |-> "queued", created_at |-> IsoDate(t)]

\* what C15 says of the job-status storage once an asynchronous batch call
\* has been answered with job id J
JobRecorded(jb, n, t, job_id) ==
    /\ job_id \in DOMAIN jb
    /\ DOMAIN jb[job_id] = {"total", "status", "created_at"}
    /\ jb[job_id] = QueuedJob(n, t)
    /\ LET g == BatchStatusOutcome(redis_configured, jb, job_id, "none")
       IN  g.http = 200 /\ g.job_info = QueuedJob(n, t)

\* C15: a queued job stays queued.  Once an asynchronous batch call has
\* been answered with job id J, the job-status storage holds under J the
\* job metadata {total, status = queued, created_at} and nothing else,
\* get_batch_status(J) returns that record, and no step changes the status
\* recorded for a job.
C15_QueuedJobRecorded ==
    [][/\ (Handled("batch") /\ req'.async_processing /\ resp'.http = 200)
          => JobRecorded(jobs', Len(req'.certificates), now, resp'.job_id)
       /\ \A j \in DOMAIN jobs :
             j \in DOMAIN jobs' /\ jobs'[j].status = "queued"]_vars

\* The same with a Redis client: then the job is recorded and stays queued.
C15_RecordedWithRedis ==
    [][/\ (Handled("batch") /\ req'.async_processing /\ resp'.http = 200
           /\ redis_configured)
          => JobRecorded(jobs', Len(req'.certificates), now, resp'.job_id)
       /\ \A j \in DOMAIN jobs :
             j \in DOMAIN jobs' /\ jobs'[j].status = "queued"]_vars

\* a job recorded by an asynchronous batch has just been asked about and
\* its record returned
C15_RecordedReached ==
    /\ Returned("batch_status")
    /\ resp.http = 200
    /\ resp.job_info.status = "queued"
    /\ resp.job_info.total = "2"

\* the key layout, written out: certificates/{YYYY}/{MM}/{id}.pdf
LayoutKey(y, m, certificate_id) ==
    "certificates/" \o ToString(y) \o "/"
        \o (IF m < 10 THEN "0" ELSE "") \o ToString(m)
        \o "/" \o certificate_id \o ".pdf"

\* C16: storage key layout.  A generate request for id X that puts a blob
\* into the store puts it under certificates/{YYYY}/{MM}/X.pdf, YYYY and
\* the two-digit MM being the year and month of the server's clock, whatever
\* the contents of the request, and changes no other key; the response
\* names that key, and a verify request in the same period finds the blob
\* under it.  A generate request that uploads nothing leaves the store as
\* it was.
C16_KeyLayout ==
    [][Handled("generate")
       => LET X == req'.certificate_id
              k == LayoutKey(now.year, now.month, X)
          IN  /\ (req'.calls.upload = 1 /\ req'.fault # "upload")
                 => /\ k \in DOMAIN store
                    /\ store' = [store EXCEPT ![k] = Render(req'.payload)]
                    /\ resp'.status = "completed" => resp'.s3_key = k
                    /\ VerifyOutcome(store', cache', now, X, "none").resp.url
                         = PresignedUrl(k, 3600)
              /\ (req'.calls.upload = 0 \/ req'.fault = "upload")
                 => store' = store]_vars

\* C16 witness: in January 2025 a generate request for A with the second
\* request contents has just been answered; the blob is under
\* certificates/2025/01/A.pdf
C16_Witness ==
    /\ Returned("generate")
    /\ req.certificate_id = "A"
    /\ req.payload = "p2"
    /\ now.year = 2025
    /\ now.month = 1
    /\ resp.status = "completed"
    /\ resp.s3_key = "certificates/2025/01/A.pdf"
    /\ store["certificates/2025/01/A.pdf"] = "%PDF p2"

\* the periods whose key a verify request arriving now probes
ProbedPeriods ==
    {p \in Periods :
        \/ MonthsBetween(p, now) = 0
        \/ now.day < 5 /\ MonthsBetween(p, now) \in 1..3}

\* the probed periods under whose key the store holds a blob for the id
HeldProbed(certificate_id) == ProbedPeriods \cap BlobPeriods(certificate_id)

\* the most recent of them
MostRecentHeld(certificate_id) ==
    CHOOSE p \in HeldProbed(certificate_id) :
        \A q \in HeldProbed(certificate_id) :
            MonthsBetween(p, now) <= MonthsBetween(q, now)

\* C17: the verification record.  A verify request for X answered 200
\* carries certificate_id = X, verification_url = <verify-base>/X, a
\* download URL signed for one hour for the key of the most recent probed
\* period that holds a blob for X, and the fixed placeholder identity fields.
C17_VerificationRecord ==
    (Returned("verify") /\ resp.http = 200)
    => LET X == req.certificate_id
       IN  /\ resp.certificate_id = X
           /\ resp.verification_url
                = "https://tracks.microlearn.university/verify/" \o X
           /\ HeldProbed(X) # {}
           /\ LET p == MostRecentHeld(X)
              IN  resp.url = PresignedUrl(LayoutKey(p.year, p.month, X), 3600)
           /\ resp.user_name = "Certificate Holder"
           /\ resp.user_email = "certificate@microlearn.university"
           /\ resp.certificate_type = "track"
           /\ resp.title = "Certificate"
           /\ resp.items_completed = <<>>

\* C17 witness: on the first days of a month the store holds blobs for the
\* id one month and two months back, none in the current month, and verify
\* has just returned a record
C17_Witness ==
    /\ Returned("verify")
    /\ resp.http = 200
    /\ {MonthsBetween(p, now) : p \in BlobPeriods(req.certificate_id)} = {1, 2}

\* C18: not found is a value.  When the store holds no blob for X under the
\* key of any probed period, the verification service returns None without
\* raising, also when the store answers the existence check with an error,
\* and the verify endpoint answers 404; so it is for every id when the
\* store is empty.
C18_NotFoundIsValue ==
    /\ Ready =>
          \A i \in IDs : \A f \in LookupFaults :
             HeldProbed(i) = {}
             => LET v == VerifyCertificate(verification_service_redis, store,
                                           cache, now, i, f)
                IN  ~v.raised /\ ~v.found
    /\ (Returned("verify") /\ HeldProbed(req.certificate_id) = {})
       => /\ resp.http = 404
          /\ resp.detail = "Certificate not found or invalid."

\* C18 witness: in the grace window, with an empty store, a verify request
\* has just been answered 404
C18_Witness ==
    /\ Returned("verify")
    /\ req.fault = "none"
    /\ now.day < 5
    /\ Elapsed >= 3
    /\ \A k \in AllKeys : store[k] = ""
    /\ resp.http = 404

\* C19: store failure is fatal.  A verify, get_status or get_download_url
\* request during whose existence check the store fails (it answers with an
\* error, or not at all) is answered with a backend failure, never with
\* 404 or "not_found".
C19_StoreFailureFatal ==
    (/\ req.op \in {"verify", "status", "download"}
     /\ req.fault \in {"exists", "unreachable"})
    => /\ resp.http >= 500
       /\ resp.status = "error"

\* when the connection to the store fails the three handlers do answer 500
C19_UnreachableIsFailure ==
    (/\ req.op \in {"verify", "status", "download"}
     /\ req.fault = "unreachable")
    => /\ resp.http = 500
       /\ resp.status = "error"

\* what a response is to the caller: "" for a result, else the kind of error
ErrorKind(r) ==
    CASE r.http = 200 -> ""
      [] r.http = 404 -> "NotFound"
      [] r.http = 422 -> "ValidationError"
      [] r.http = 503 -> "BackendUnavailable"
      [] r.http = 500 /\ r.detail \in {"Failed to generate certificate",
                                       "Failed to generate batch certificates"}
           -> "GenerationFailure"
      [] r.http = 500 /\ r.detail \in {"Failed to get certificate status",
                                       "Failed to generate download URL"}
           -> "BackendUnavailable"
      [] OTHER -> "InternalError"

\* C20: no internal exception leaks.  Every generate, generate_batch,
\* verify, get_status and get_download_url request, whatever the store and
\* the cache hold and whichever backend call fails, is answered with a
\* result or with one of NotFound, BackendUnavailable, ValidationError,
\* GenerationFailure, and the answer names no internal exception type.
C20_NoInternalException ==
    req.op \in {"generate", "batch", "verify", "status", "download"}
    => /\ ErrorKind(resp) \in {"", "NotFound", "BackendUnavailable",
                               "ValidationError", "GenerationFailure"}
       /\ "type" \notin DOMAIN resp

\* apart from verify every one of these handlers answers in those kinds
C20_HandlersButVerify ==
    req.op \in {"generate", "batch", "status", "download"}
    => /\ ErrorKind(resp) \in {"", "NotFound", "BackendUnavailable",
                               "GenerationFailure"}
       /\ "type" \notin DOMAIN resp

\* C21: the backends are interchangeable.  After any sequence of upload,
\* download, exists, delete and get_metadata calls made with the same keys
\* on both, the S3 backend and the local backend have returned the same
\* result to the last call.
C21_BackendsInterchangeable ==
    backends.s3_result = backends.local_result

\* on upload, download and exists the two backends do agree, and on the
\* delete of a stored blob
C21_AgreeOnContents ==
    (\/ backends.call \in {"upload", "download", "exists"}
     \/ backends.call = "delete" /\ backends.local_result.found)
    => backends.s3_result = backends.local_result

\* the key get_download_url looks at: the cached key of the id, the
\* current-period key when the cache holds no entry for it
DownloadKey(certificate_id) ==
    IF redis_configured /\ cache[certificate_id] # ""
    THEN cache[certificate_id]
    ELSE LayoutKey(now.year, now.month, certificate_id)

\* C22: get_download_url.  A download-url request for X that meets no
\* backend failure is answered 200 with a URL for the cached key of X (the
\* current-period key when the cache holds no entry) that expires after
\* 3600 seconds when the store holds that key, and 404 otherwise, whatever
\* earlier periods hold, in the grace window too; the cache entry, stale or
\* not, is left as it was.
C22_DownloadUrl ==
    [][(Handled("download") /\ req'.fault = "none") =>
          LET X == req'.certificate_id
              k == DownloadKey(X)
          IN  /\ store[k] # "" =>
                    /\ resp'.http = 200
                    /\ resp'.url = "https://s3/" \o k \o "?X-Amz-Expires=3600"
              /\ store[k] = "" => resp'.http = 404 /\ resp'.url = ""
              /\ cache' = cache
              /\ store' = store]_vars

\* C22 witness: in the grace window a download-url request has been
\* answered 404 while the month before holds the blob of the id
C22_Witness ==
    /\ Returned("download")
    /\ req.fault = "none"
    /\ GraceWindow(now.day)
    /\ resp.http = 404
    /\ cache[req.certificate_id] = ""
    /\ \E p \in BlobPeriods(req.certificate_id) :
          p = PrevPeriod(Period(now.year, now.month))

\* a download-url request has been answered 404 on a stale cache entry,
\* which is still in the cache
C22_StaleReached ==
    /\ Returned("download")
    /\ req.fault = "none"
    /\ resp.http = 404
    /\ redis_configured
    /\ cache[req.certificate_id] # ""
    /\ store[cache[req.certificate_id]] = ""

\* the keys an upload of the id can have returned so far: the layout key of
\* a period from the first one to the current one
UploadKeys(certificate_id) ==
    {LayoutKey(PeriodAt(n).year, PeriodAt(n).month, certificate_id) :
        n \in 0..Elapsed}

\* C23: cache-value invariant.  In every reachable state each cache entry
\* cert:X is absent or holds a storage key certificates/<year>/<month>/X.pdf
\* of a period in which X can have been uploaded: never a URL, never a key
\* of another id; and nothing is cached when no cache is configured.
C23_CacheValue ==
    \A i \in IDs :
        /\ cache[i] # "" => cache[i] \in UploadKeys(i)
        /\ ~redis_configured => cache[i] = ""

\* C23 witness: generate has just answered "completed" for X and the cache
\* holds for X the key the blob was put under, for the other id an entry
\* written in an earlier month
C23_Witness ==
    /\ Returned("generate")
    /\ resp.status = "completed"
    /\ cache[req.certificate_id] = resp.s3_key
    /\ store[resp.s3_key] # ""
    /\ \E j \in IDs :
          /\ j # req.certificate_id
          /\ cache[j] # ""
          /\ cache[j] # LayoutKey(now.year, now.month, j)

\* C24 as stated: whenever generate has answered "completed" or "cached"
\* for X, the store holds a blob for X at that moment.
C24_SuccessImpliesBlob ==
    (Returned("generate") /\ resp.status \in {"completed", "cached"})
    => BlobPeriods(req.certificate_id) # {}

\* C24, amended: whenever generate has answered "completed" for X, the
\* store holds at that moment a blob for X, under the key of the response,
\* after any sequence of generate, delete, verify and cache-expiry steps.
C24_CompletedImpliesBlob ==
    (Returned("generate") /\ resp.status = "completed")
    => /\ resp.s3_key \in KeysOf(req.certificate_id)
       /\ store[resp.s3_key] # ""

\* C24 witness: generate has answered "completed" for an id for the second
\* time, its first blob having been deleted and its cache entry having
\* expired; the blob is in the store again
C24_Witness ==
    /\ Returned("generate")
    /\ resp.status = "completed"
    /\ uploads = 2
    /\ BlobPeriods(req.certificate_id) = {Period(now.year, now.month)}
    /\ \A j \in IDs : j # req.certificate_id => BlobPeriods(j) = {} /\ cache[j] = ""
    /\ Elapsed = 0

\* the URL is an access URL for the key: a presigned URL of the store
AccessUrl(url, key) == \E e \in {DefaultExpiration} : url = PresignedUrl(key, e)

\* C25: the response of generate locates the blob.  Whenever generate has
\* answered "completed" or "cached" for X, s3_key is a key
\* certificates/<year>/<month>/X.pdf, and public_url an access URL for it.
C25_ResponseLocatesBlob ==
    (Returned("generate") /\ resp.status \in {"completed", "cached"})
    => /\ \E p \in Periods :
             resp.s3_key = LayoutKey(p.year, p.month, req.certificate_id)
       /\ AccessUrl(resp.url, resp.s3_key)

\* the response of a request that was not answered from the cache does
\* locate the blob it has stored
C25_CompletedLocatesBlob ==
    (Returned("generate") /\ resp.status = "completed")
    => /\ resp.s3_key = LayoutKey(now.year, now.month, req.certificate_id)
       /\ store[resp.s3_key] = Render(req.payload)
       /\ AccessUrl(resp.url, resp.s3_key)

\* C28: one blob per id.  In every reachable state the store holds, for
\* every certificate id, a blob under the key of at most one period.
C28_AtMostOneBlob ==
    \A i \in IDs : Cardinality(BlobPeriods(i)) <= 1

\* while the clock stays in the period of the first upload, an id has at
\* most one blob
C28_OneBlobInFirstPeriod ==
    Elapsed = 0 => \A i \in IDs : Cardinality(BlobPeriods(i)) <= 1

\* the cache verify_certificate leaves differs from the one it found at
\* most in that the entry of the requested id is gone
OnlyOwnEntryDeleted(before, after, certificate_id) ==
    \A j \in IDs :
        IF j = certificate_id THEN after[j] \in {before[j], ""}
        ELSE after[j] = before[j]

\* C29: lookups are read-only.  A verify, get_status or get_download_url
\* request leaves the store as it was; get_status and get_download_url
\* leave the cache as it was; verify changes the cache at most by deleting
\* the entry of the requested id, with or without a cache client in the
\* verification service and whatever backend call fails.
C29_LookupsReadOnly ==
    [][/\ (Handled("verify") \/ Handled("status") \/ Handled("download"))
          => store' = store
       /\ (Handled("status") \/ Handled("download")) => cache' = cache
       /\ Handled("verify") => OnlyOwnEntryDeleted(cache, cache', req'.certificate_id)
       /\ Handled("verify")
          => \A f \in LookupFaults, rc \in BOOLEAN :
                OnlyOwnEntryDeleted(
                    cache,
                    VerifyCertificate(rc, store, cache, now,
                                      req'.certificate_id, f).cache,
                    req'.certificate_id)]_vars

\* C29 witness: verify has answered 404 for an id whose cache entry is
\* stale, while the cache holds an entry for the other id and the store its
\* blob; a verification service with a cache client would have deleted the
\* entry of the requested id
C29_Witness ==
    /\ Returned("verify")
    /\ resp.http = 404
    /\ cache[req.certificate_id] # ""
    /\ store[cache[req.certificate_id]] = ""
    /\ VerifyCertificate(TRUE, store, cache, now, req.certificate_id, "none").cache
          [req.certificate_id] = ""
    /\ \E j \in IDs :
          j # req.certificate_id /\ cache[j] # "" /\ store[cache[j]] # ""

\* C30: no rollback in a failed synchronous batch.  When a synchronous
\* batch call has failed at request k, the call is answered with the error
\* and no record, and the store still holds, under the key of the current
\* period, the blob of each of the requests 1..k-1, which verify resolves.
C30_NoRollback ==
    (/\ Returned("batch")
     /\ ~req.async_processing
     /\ req.fault \in BatchItemFaults)
    => /\ resp.http = 500
       /\ resp.certificates = <<>>
       /\ \A k \in 1..(req.at - 1) :
             LET X == req.certificates[k].certificate_id
                 v == VerifyOutcome(store, cache, now, X, "none").resp
             IN  /\ store[LayoutKey(now.year, now.month, X)] # ""
                 /\ v.http = 200
                 /\ v.url = PresignedUrl(LayoutKey(now.year, now.month, X),
                                         DefaultExpiration)

\* C30 witness: the rendering of the second request of a synchronous batch
\* has just failed; the blob of the first request, which the store did not
\* hold before, is in the store and verify finds it
C30_Witness ==
    /\ Returned("batch")
    /\ ~req.async_processing
    /\ req.fault = "render"
    /\ req.at = 2
    /\ uploads = 1
    /\ resp.http = 500
    /\ LET X == req.certificates[1].certificate_id
       IN  /\ BlobPeriods(X) = {Period(now.year, now.month)}
           /\ VerifyOutcome(store, cache, now, X, "none").resp.http = 200
           /\ req.certificates[2].certificate_id # X

\* the generate requests for the id, taken by any worker
RequestsFor(certificate_id) ==
    {p \in 1..NumReqs :
        procs[p].pc # "idle" /\ procs[p].certificate_id = certificate_id}

\* C27: concurrent generate requests for one id.  Within one calendar
\* period and with no deletion, once every generate request for X has
\* returned, one of them successfully, the store holds exactly one blob for
\* X, under the key of the current period, and where a cache is configured
\* its entry for X is that key, however the requests were interleaved.
C27_OneBlobAfterRace ==
    \A i \in IDs :
        (/\ \A p \in RequestsFor(i) : procs[p].pc = "done"
         /\ \E p \in RequestsFor(i) : procs[p].resp.http = 200)
        => /\ BlobPeriods(i) = {Period(now.year, now.month)}
           /\ \E p \in RequestsFor(i) :
                 store[Key(now.year, now.month, i)] = procs[p].pdf
           /\ redis_configured => cache[i] = Key(now.year, now.month, i)

\* C27 witness: two requests for one id, both of which passed the cache
\* check, rendered and uploaded, have returned; the cache is configured
C27_Witness ==
    /\ redis_configured
    /\ RequestsFor(procs[1].certificate_id) = {1, 2}
    /\ \A p \in {1, 2} :
          /\ procs[p].pc = "done"
          /\ procs[p].resp.status = "completed"
    /\ procs[1].payload # procs[2].payload
    /\ store[cache[procs[1].certificate_id]] = procs[1].pdf

C26_StaleDeleted ==
    /\ verifier.pc = "done"
    /\ ~verifier.found
    /\ verifier.s3_key # ""
    /\ cache[verifier.certificate_id] = ""
    /\ store[verifier.s3_key] = ""
    /\ redis_configured

=============================================================================
